---- MODULE Spec2Model ----
(***************************************************************************)
(* The waste-management chat backend of main.py: the topic classifier      *)
(* is_waste_management_question and the POST /chat handler, served by      *)
(* several workers at once.  Strings are TLA+ strings; the substring test  *)
(* and str.lower() are computed character by character.                    *)
(***************************************************************************)
EXTENDS Integers, Sequences, FiniteSets, TLC

\* ------------------------------------------------------------------ bounds
\* Longest message, counted in vocabulary fragments joined by one space.
MaxWords == 2
\* Number of workers serving /chat at the same time (SpecConc).
NumWorkers == 2

\* ----------------------------------------------------------------- strings
\* One character of str.lower(), ASCII letters (main.py:29, main.py:155).
LowerChar(c) ==
  CASE c = "A" -> "a" [] c = "B" -> "b" [] c = "C" -> "c" [] c = "D" -> "d"
    [] c = "E" -> "e" [] c = "F" -> "f" [] c = "G" -> "g" [] c = "H" -> "h"
    [] c = "I" -> "i" [] c = "J" -> "j" [] c = "K" -> "k" [] c = "L" -> "l"
    [] c = "M" -> "m" [] c = "N" -> "n" [] c = "O" -> "o" [] c = "P" -> "p"
    [] c = "Q" -> "q" [] c = "R" -> "r" [] c = "S" -> "s" [] c = "T" -> "t"
    [] c = "U" -> "u" [] c = "V" -> "v" [] c = "W" -> "w" [] c = "X" -> "x"
    [] c = "Y" -> "y" [] c = "Z" -> "z" [] OTHER -> c

RECURSIVE lower(_)
\* text.lower()
lower(s) ==
  IF Len(s) = 0 THEN ""
  ELSE LowerChar(SubSeq(s, 1, 1)) \o lower(SubSeq(s, 2, Len(s)))

\* Python's `word in t` on strings: word occurs in t at some position.
substr_in(word, t) ==
  \E i \in 1..(Len(t) - Len(word) + 1) : SubSeq(t, i, i + Len(word) - 1) = word

\* any(word in t for word in words)
any_in(words, t) == \E k \in 1..Len(words) : substr_in(words[k], t)

\* ------------------------------------------------------------------ tables
waste_keywords ==
  <<
    "waste", "garbage", "trash", "refuse", "rubbish", "litter",
    "recycle", "recycling", "compost", "composting", "landfill",
    "incineration", "waste segregation", "segregation", "bin", "bins",
    "collection", "pickup", "solid waste", "hazardous waste", "ewaste",
    "e-waste", "medical waste", "organic waste", "plastic", "paper",
    "glass", "metal", "battery", "electronics disposal", "zero waste",
    "circular economy", "resource recovery", "material recovery",
    "mrf", "msw", "municipal waste", "biodegradable",
    "non-biodegradable", "sanitary waste", "waste audit", "dumpster",
    "transfer station", "compactor", "leachate", "methane",
    "anaerobic digestion", "extended producer responsibility", "epr",
    "collection schedule", "pickup schedule", "bulk waste", "drop-off",
    "recycling center", "recycling centre", "clean-up", "sorting",
    "guidelines", "contamination", "blue bin", "green bin", "brown bin"
  >>

banned_keywords ==
  <<
    "stock", "stocks", "share", "shares", "crypto", "bitcoin",
    "ethereum", "forex", "currency", "currencies", "dividend",
    "portfolio", "valuation", "budget", "loan", "mortgage", "interest",
    "roi", "return on investment", "revenue", "profit", "loss",
    "accounting", "tax", "taxes", "irs", "gst", "balance sheet",
    "income statement", "inflation", "economy", "economic", "finance",
    "financial", "bank", "banking", "trading", "hedge", "fund"
  >>

context_hints == <<"bin day", "pickup day", "how to dispose", "can i throw">>

FinanceReason == "Question appears to be about finance/business, which is out of scope."
WasteReason == "Detected waste-management related keywords."
ContextReason == "Detected disposal/pickup context."
NoMatchReason == "Could not match the topic to waste management."

\* -------------------------------------------------------------- classifier
banned_hit(t) == any_in(banned_keywords, t)
waste_hit(t) == any_in(waste_keywords, t)
hint_hit(t) == any_in(context_hints, t)

\* Variants of the classifier with one rule misplaced or dropped.
\* Rule 1 (banned and no waste keyword) is missing.
iwmq_NoBannedOverride(text) ==
  LET t == lower(text) IN
    IF waste_hit(t) THEN <<TRUE, <<WasteReason>>>>
    ELSE IF hint_hit(t) THEN <<TRUE, <<ContextReason>>>>
    ELSE <<FALSE, <<NoMatchReason>>>>

\* Rule 1 tests banned_hit alone, so a banned keyword always wins.
iwmq_BannedWins(text) ==
  LET t == lower(text) IN
    IF banned_hit(t) THEN <<FALSE, <<FinanceReason>>>>
    ELSE IF waste_hit(t) THEN <<TRUE, <<WasteReason>>>>
    ELSE IF hint_hit(t) THEN <<TRUE, <<ContextReason>>>>
    ELSE <<FALSE, <<NoMatchReason>>>>

\* The context hints are tried before the waste keywords.
iwmq_HintsBeforeWaste(text) ==
  LET t == lower(text) IN
    IF banned_hit(t) /\ ~waste_hit(t) THEN <<FALSE, <<FinanceReason>>>>
    ELSE IF hint_hit(t) THEN <<TRUE, <<ContextReason>>>>
    ELSE IF waste_hit(t) THEN <<TRUE, <<WasteReason>>>>
    ELSE <<FALSE, <<NoMatchReason>>>>

\* The context hints are not tried at all.
iwmq_NoHints(text) ==
  LET t == lower(text) IN
    IF banned_hit(t) /\ ~waste_hit(t) THEN <<FALSE, <<FinanceReason>>>>
    ELSE IF waste_hit(t) THEN <<TRUE, <<WasteReason>>>>
    ELSE <<FALSE, <<NoMatchReason>>>>

\* The default path returns without appending its reason.
iwmq_NoDefaultReason(text) ==
  LET t == lower(text) IN
    IF banned_hit(t) /\ ~waste_hit(t) THEN <<FALSE, <<FinanceReason>>>>
    ELSE IF waste_hit(t) THEN <<TRUE, <<WasteReason>>>>
    ELSE IF hint_hit(t) THEN <<TRUE, <<ContextReason>>>>
    ELSE <<FALSE, <<>>>>

\* The context hints are tried before the banned-topic override.
iwmq_HintsBeforeBanned(text) ==
  LET t == lower(text) IN
    IF waste_hit(t) THEN <<TRUE, <<WasteReason>>>>
    ELSE IF hint_hit(t) THEN <<TRUE, <<ContextReason>>>>
    ELSE IF banned_hit(t) THEN <<FALSE, <<FinanceReason>>>>
    ELSE <<FALSE, <<NoMatchReason>>>>

\* The classifier; the result is the pair <<allowed, reasons>>.
is_waste_management_question(text) ==
  LET t == lower(text) IN
    IF banned_hit(t) /\ ~waste_hit(t) THEN <<FALSE, <<FinanceReason>>>>
    ELSE IF waste_hit(t) THEN <<TRUE, <<WasteReason>>>>
    ELSE IF hint_hit(t) THEN <<TRUE, <<ContextReason>>>>
    ELSE <<FALSE, <<NoMatchReason>>>>

\* --------------------------------------------------------------- responder
\* The ordered (key, answer) table of chat(); the two em-dashes of the
\* source answers are written "-".
faqs ==
  <<
    <<"plastic",
      "Clean and dry plastics with numbers 1-5 are typically recyclable. Film/plastic bags usually are not curbside-use store drop-offs if available.">>,
    <<"battery",
      "Batteries should not go in regular bins. Use designated e-waste or hazardous waste drop-offs in your city.">>,
    <<"compost",
      "Compost accepts food scraps, coffee grounds, yard waste, and uncoated paper. Avoid meat, dairy, and oily foods if your local guidelines restrict them.">>,
    <<"glass",
      "Rinse glass containers and remove caps. Some areas separate by color; check local rules.">>,
    <<"electronics",
      "Electronics are e-waste. Use certified e-waste collection points for safe recycling.">>,
    <<"pickup",
      "Curbside pickup days vary by location. Please check your local collection schedule or provide your area for specific guidance.">>,
    <<"hazard",
      "Hazardous waste (paint, chemicals, solvents) requires special drop-offs-never place in regular bins.">>,
    <<"landfill",
      "Items that are contaminated, mixed materials, or non-recyclable plastics often go to landfill. Consider reuse first.">>
  >>

RefusalReply ==
  "I'm here to help with waste management topics only. " \o
  "Please ask about recycling, disposal guidelines, pickup schedules, composting, etc."

FallbackReply ==
  "This appears related to waste management. Could you share your city/area if you need local rules, or specify the material/item you're disposing of?"

RECURSIVE faq_scan(_, _)
\* The for loop over faqs from entry i on: <<ans>> of the first entry whose
\* key is in t (the break), <<>> when the loop ends with reply still None.
faq_scan(t, i) ==
  IF i > Len(faqs) THEN <<>>
  ELSE IF substr_in(faqs[i][1], t) THEN <<faqs[i][2]>>
  ELSE faq_scan(t, i + 1)

\* The loop without its break: the last matching entry wins.
faq_reply_LastMatch(t) ==
  LET hits == { i \in 1..Len(faqs) : substr_in(faqs[i][1], t) } IN
    IF hits = {} THEN FallbackReply
    ELSE faqs[CHOOSE i \in hits : \A j \in hits : j <= i][2]

\* The reply the handler builds for an allowed message whose lowercased text is t.
faq_reply(t) ==
  LET reply == faq_scan(t, 1) IN
    IF reply = <<>> THEN FallbackReply ELSE reply[1]

\* ------------------------------------------------------------------ inputs
\* Fragments the modelled clients build messages from: FAQ keys, waste and
\* banned keywords in either case, context hints, words that only contain a
\* keyword ("cabinet", "batteries"), and words that match nothing.
Vocabulary ==
  { "Plastic", "battery", "batteries", "compost", "hazard", "pickup",
    "landfill", "STOCK", "tax", "economy", "circular", "how to dispose",
    "Can I throw", "bin day", "cabinet", "hello" }

RECURSIVE Sentences(_)
Sentences(n) ==
  IF n <= 1 THEN Vocabulary
  ELSE LET shorter == Sentences(n - 1) IN
         shorter \cup { s \o " " \o w : s \in shorter, w \in Vocabulary }

\* The end-to-end messages of the specification's scenarios.
Scenarios ==
  { "When is my recycling pickup?", "What's the best stock to buy?",
    "How do I dispose of old batteries?", "Tell me about bin day",
    "plastic battery", "How to dispose of a sofa?", "pickup day budget",
    "Hello there" }

\* ChatRequest: message is a str with min_length = 1.
ChatRequest(candidates) == { m \in candidates : Len(m) >= 1 }

Messages == ChatRequest(Scenarios \cup Sentences(MaxWords) \cup {""})
ConcMessages == ChatRequest(Scenarios)

\* ------------------------------------------------------------------- state
\* pc[w]: where worker w is inside chat(); message[w]: req.message of the
\* request it serves; allowed, reasons, t: the locals of chat() (t is set
\* only when the responder part runs); response[w]: the ChatResponse returned.
VARIABLES pc, message, allowed, reasons, t, response

vars == <<pc, message, allowed, reasons, t, response>>

Workers == DOMAIN pc

\* A local that has not been assigned yet.
None == "<None>"
NoResponse == [reply |-> None, allowed |-> FALSE, reasons |-> <<>>]

\* ChatResponse(reply, allowed, reasons)
ChatResponse(reply, al, rs) == [reply |-> reply, allowed |-> al, reasons |-> rs]

InitWorkers(W) ==
  /\ pc = [w \in W |-> "idle"]
  /\ message = [w \in W |-> None]
  /\ allowed = [w \in W |-> FALSE]
  /\ reasons = [w \in W |-> <<>>]
  /\ t = [w \in W |-> None]
  /\ response = [w \in W |-> NoResponse]

Init == InitWorkers({1})
InitConc == InitWorkers(1..NumWorkers)

\* ----------------------------------------------------------------- handler
\* A validated POST /chat request reaches worker w.
Receive(w, inputs) ==
  /\ pc[w] = "idle"
  /\ \E m \in inputs :
       message' = [message EXCEPT ![w] = m]
  /\ pc' = [pc EXCEPT ![w] = "classify"]
  /\ UNCHANGED <<allowed, reasons, t, response>>

\* The handler without the `if not allowed` test: every message is answered.
Classify_NoGate(w) ==
  /\ pc[w] = "classify"
  /\ LET result == is_waste_management_question(message[w]) IN
       /\ allowed' = [allowed EXCEPT ![w] = result[1]]
       /\ reasons' = [reasons EXCEPT ![w] = result[2]]
       /\ pc' = [pc EXCEPT ![w] = "respond"]
  /\ UNCHANGED <<message, t, response>>

\* `reasons` kept in one module-level list that every call overwrites.
Classify_SharedReasons(w) ==
  /\ pc[w] = "classify"
  /\ LET result == is_waste_management_question(message[w]) IN
       /\ allowed' = [allowed EXCEPT ![w] = result[1]]
       /\ reasons' = [v \in Workers |-> result[2]]
       /\ pc' = [pc EXCEPT ![w] = IF result[1] THEN "respond" ELSE "refuse"]
  /\ UNCHANGED <<message, t, response>>

\* allowed, reasons = is_waste_management_question(req.message), and the
\* test `if not allowed` that follows it.
Classify(w) ==
  /\ pc[w] = "classify"
  /\ LET result == is_waste_management_question(message[w]) IN
       /\ allowed' = [allowed EXCEPT ![w] = result[1]]
       /\ reasons' = [reasons EXCEPT ![w] = result[2]]
       /\ pc' = [pc EXCEPT ![w] = IF result[1] THEN "respond" ELSE "refuse"]
  /\ UNCHANGED <<message, t, response>>

\* The `if not allowed` branch: the fixed refusal.
Refuse(w) ==
  /\ pc[w] = "refuse"
  /\ response' = [response EXCEPT ![w] = ChatResponse(RefusalReply, FALSE, reasons[w])]
  /\ pc' = [pc EXCEPT ![w] = "done"]
  /\ UNCHANGED <<message, allowed, reasons, t>>

\* The responder part: lowercase, FAQ scan, fallback, response.
Respond(w) ==
  /\ pc[w] = "respond"
  /\ t' = [t EXCEPT ![w] = lower(message[w])]
  /\ response' = [response EXCEPT ![w] = ChatResponse(faq_reply(t'[w]), TRUE, reasons[w])]
  /\ pc' = [pc EXCEPT ![w] = "done"]
  /\ UNCHANGED <<message, allowed, reasons>>

\* The response has been sent; the call's locals are gone.
Return(w) ==
  /\ pc[w] = "done"
  /\ pc' = [pc EXCEPT ![w] = "idle"]
  /\ message' = [message EXCEPT ![w] = None]
  /\ allowed' = [allowed EXCEPT ![w] = FALSE]
  /\ reasons' = [reasons EXCEPT ![w] = <<>>]
  /\ t' = [t EXCEPT ![w] = None]
  /\ response' = [response EXCEPT ![w] = NoResponse]

\* One worker, every message of Messages.
Next ==
  \E w \in Workers :
    \/ Receive(w, Messages)
    \/ Classify(w)
    \/ Refuse(w)
    \/ Respond(w)
    \/ Return(w)

Spec == Init /\ [][Next]_vars

\* NumWorkers workers interleaved step by step, the scenario messages.
NextConc ==
  \E w \in Workers :
    \/ Receive(w, ConcMessages)
    \/ Classify(w)
    \/ Refuse(w)
    \/ Respond(w)
    \/ Return(w)

SpecConc == InitConc /\ [][NextConc]_vars

\* The whole handler run on message m without interruption.
chat(m) ==
  LET result == is_waste_management_question(m) IN
    IF ~result[1] THEN ChatResponse(RefusalReply, FALSE, result[2])
    ELSE ChatResponse(faq_reply(lower(m)), TRUE, result[2])

\* ------------------------------------------------------------------ claims
\* Worker w holds the classifier's result / holds its response.
Classified(w) == pc[w] \in {"refuse", "respond", "done"}
Done(w) == pc[w] = "done"

BatteriesMsg == "How do I dispose of old batteries?"
BinDayMsg == "Tell me about bin day"
PlasticBatteryMsg == "plastic battery"

\* C1: a message with a banned keyword and no waste-domain keyword is
\* classified allowed = FALSE with the finance/business reason as its
\* single reason.
C1_BannedOnlyRefused ==
  \A w \in Workers :
    (Classified(w) /\ banned_hit(lower(message[w])) /\ ~waste_hit(lower(message[w])))
      => (allowed[w] = FALSE /\ reasons[w] = <<FinanceReason>>)

C1_Witness ==
  \E w \in Workers :
    /\ Classified(w)
    /\ banned_hit(lower(message[w])) /\ ~waste_hit(lower(message[w]))
    /\ allowed[w] = FALSE /\ reasons[w] = <<FinanceReason>>

\* C2: a message with both a banned keyword and a waste-domain keyword is
\* classified allowed = TRUE with the waste-keywords reason.
C2_WasteWinsOverBanned ==
  \A w \in Workers :
    (Classified(w) /\ banned_hit(lower(message[w])) /\ waste_hit(lower(message[w])))
      => (allowed[w] = TRUE /\ reasons[w] = <<WasteReason>>)

C2_Witness ==
  \E w \in Workers :
    /\ Classified(w)
    /\ banned_hit(lower(message[w])) /\ waste_hit(lower(message[w]))
    /\ allowed[w] = TRUE /\ reasons[w] = <<WasteReason>>

\* C3: /chat answers "How do I dispose of old batteries?" with
\* allowed = TRUE and the canned answer of the "battery" FAQ entry.
C3_BatteriesAnswered ==
  \A w \in Workers :
    (Done(w) /\ message[w] = BatteriesMsg)
      => (response[w].allowed = TRUE /\ response[w].reply = faqs[2][2])

\* C4 as stated: "Tell me about bin day" contains no waste-domain keyword
\* and is accepted through the context-hint path.
C4_BinDayViaHint ==
  \A w \in Workers :
    (Classified(w) /\ message[w] = BinDayMsg)
      => /\ ~waste_hit(lower(message[w]))
         /\ allowed[w] = TRUE
         /\ reasons[w] = <<ContextReason>>

\* C4 amended: "Tell me about bin day" contains the waste-domain keyword
\* "bin" and is accepted (allowed = TRUE) through the waste-keyword path:
\* its single reason is the waste-keywords reason, not the context reason.
C4_BinDayViaKeyword ==
  \A w \in Workers :
    (Classified(w) /\ message[w] = BinDayMsg)
      => /\ substr_in("bin", lower(message[w]))
         /\ allowed[w] = TRUE
         /\ reasons[w] = <<WasteReason>>

C4_Witness ==
  \E w \in Workers :
    Classified(w) /\ message[w] = BinDayMsg /\ reasons[w] = <<WasteReason>>

\* C5: a message with neither a waste-domain nor a banned keyword but with
\* a context-hint phrase is classified allowed = TRUE with the
\* disposal/pickup-context reason as its single reason.
C5_HintOnlyAllowed ==
  \A w \in Workers :
    (/\ Classified(w)
     /\ ~waste_hit(lower(message[w]))
     /\ ~banned_hit(lower(message[w]))
     /\ hint_hit(lower(message[w])))
      => (allowed[w] = TRUE /\ reasons[w] = <<ContextReason>>)

C5_Witness ==
  \E w \in Workers :
    /\ Classified(w)
    /\ ~waste_hit(lower(message[w])) /\ ~banned_hit(lower(message[w]))
    /\ hint_hit(lower(message[w]))
    /\ allowed[w] = TRUE /\ reasons[w] = <<ContextReason>>

\* The table order the claim C6 names.
FaqOrder ==
  <<"plastic", "battery", "compost", "glass", "electronics", "pickup",
    "hazard", "landfill">>

\* C6: the reply to an allowed message is the answer of the first entry, in
\* the order of FaqOrder, whose keyword is in the lowercased message, and the
\* fallback prompt when there is none; "plastic battery" gets the "plastic"
\* answer and not the "battery" answer.
C6_FirstMatchReply ==
  \A w \in Workers :
    (Done(w) /\ response[w].allowed) =>
      LET lt == lower(message[w])
          hits == { i \in 1..Len(FaqOrder) : substr_in(FaqOrder[i], lt) }
      IN /\ \A i \in 1..Len(FaqOrder) : faqs[i][1] = FaqOrder[i]
         /\ hits = {} => response[w].reply = FallbackReply
         /\ \A i \in hits :
              (\A j \in hits : i <= j) => response[w].reply = faqs[i][2]
         /\ message[w] = PlasticBatteryMsg =>
              (response[w].reply = faqs[1][2] /\ response[w].reply # faqs[2][2])

C6_Witness ==
  \E w \in Workers :
    /\ Done(w) /\ response[w].allowed
    /\ message[w] = PlasticBatteryMsg
    /\ substr_in("plastic", lower(message[w]))
    /\ substr_in("battery", lower(message[w]))
    /\ response[w].reply = faqs[1][2]

\* C7: every response to a message of length at least 1 has a non-empty
\* reply and exactly one reason, whether it is a refusal, an FAQ answer or
\* the fallback prompt.
C7_ReplyAndOneReason ==
  \A w \in Workers :
    (Done(w) /\ Len(message[w]) >= 1) =>
      /\ response[w].reply # None
      /\ Len(response[w].reply) > 0
      /\ Len(response[w].reasons) = 1

C7_Witness ==
  \E w \in Workers :
    /\ Done(w) /\ Len(message[w]) >= 1
    /\ response[w].allowed = FALSE
    /\ response[w].reasons = <<NoMatchReason>>
    /\ Len(response[w].reply) > 0

\* C8: the classifier runs before the responder and the FAQ scan never runs
\* for a disallowed message: a disallowed message gets the fixed refusal,
\* allowed = FALSE and the classifier's reasons; an allowed one gets
\* allowed = TRUE, the classifier's reasons and a reply that is not the
\* refusal.
C8_ClassifierGatesResponder ==
  \A w \in Workers :
    /\ pc[w] \in {"idle", "classify", "refuse"} =>
         (t[w] = None /\ response[w] = NoResponse)
    /\ pc[w] = "respond" =>
         (t[w] = None /\ is_waste_management_question(message[w])[1])
    /\ Done(w) =>
         LET c == is_waste_management_question(message[w]) IN
           /\ ~c[1] => /\ response[w] = ChatResponse(RefusalReply, FALSE, c[2])
                       /\ t[w] = None
           /\ c[1] => /\ response[w].allowed = TRUE
                      /\ response[w].reasons = c[2]
                      /\ response[w].reply # RefusalReply
                      /\ t[w] = lower(message[w])

C8_Witness ==
  \E w \in Workers :
    /\ Done(w)
    /\ ~is_waste_management_question(message[w])[1]
    /\ response[w].reply = RefusalReply
    /\ t[w] = None

\* A step leaves alone every local of every worker that did not take it.
OthersUntouched ==
  \A w \in Workers :
    pc'[w] = pc[w] =>
      /\ message'[w] = message[w]
      /\ allowed'[w] = allowed[w]
      /\ reasons'[w] = reasons[w]
      /\ t'[w] = t[w]
      /\ response'[w] = response[w]

\* What a response depends on: the message alone.
OwnMessageOnly ==
  /\ \A w \in Workers : Done(w) => response[w] = chat(message[w])
  /\ \A v, w \in Workers :
       (Done(v) /\ Done(w) /\ message[v] = message[w]) => response[v] = response[w]

\* C9: under any interleaving of the workers' steps a request's outcome
\* depends only on its own message, two requests with the same message get
\* the same outcome, and no step changes what another request reads.
C9_RequestsIndependent == []OwnMessageOnly /\ [][OthersUntouched]_vars

C9_Witness ==
  \E v, w \in Workers :
    /\ v # w
    /\ Done(v) /\ pc[w] = "respond"
    /\ message[v] # message[w]
    /\ response[v].allowed = FALSE /\ response[v] = chat(message[v])
    /\ reasons[w] # response[v].reasons

\* C10: the banned-topic override comes before the context hints: banned
\* keyword, context hint and no waste keyword give allowed = FALSE with the
\* finance/business reason; allowed holds exactly when a waste keyword
\* matches, or a hint matches and no banned keyword does.
C10_BannedBeforeHints ==
  \A w \in Workers :
    Classified(w) =>
      LET lt == lower(message[w]) IN
        /\ allowed[w] <=> (waste_hit(lt) \/ (hint_hit(lt) /\ ~banned_hit(lt)))
        /\ (banned_hit(lt) /\ hint_hit(lt) /\ ~waste_hit(lt)) =>
             (allowed[w] = FALSE /\ reasons[w] = <<FinanceReason>>)

C10_Witness ==
  \E w \in Workers :
    /\ Classified(w)
    /\ banned_hit(lower(message[w])) /\ hint_hit(lower(message[w]))
    /\ ~waste_hit(lower(message[w]))
    /\ allowed[w] = FALSE /\ reasons[w] = <<FinanceReason>>
====
